---- MODULE Spec2Model ----
(***************************************************************************)
(* Model of the formula engine of pyqbf (src/formula.py): the clause       *)
(* database with its literal occurrence sets, resolution, universal        *)
(* reduction and variable elimination.                                     *)
(*                                                                         *)
(* Python objects are modelled as records.  A Literal object is            *)
(* [variable, is_positive, gen]: `gen` tells apart the Literal objects of  *)
(* two Variable objects created under the same index (Literal.__eq__       *)
(* ignores it, exactly as it ignores object identity).  A Clause object is *)
(* [literals, index, is_original, obj]: `obj` names the call that built    *)
(* the object, which with the other fields tells apart any two Clause      *)
(* objects the Formula holds (what the `is` operator compares);            *)
(* Clause.__eq__ ignores it.                                               *)
(***************************************************************************)
EXTENDS Integers, Sequences, FiniteSets, TLC

\* ---------------------------------------------------------------- bounds
NumVars == 2        \* num_vars of the QDimacs input the Formula is built from
MaxClauseLen == 2   \* longest clause handed to add_clause by the caller
MaxAdds == 3        \* number of add_clause calls made by the caller
MaxFresh == 1       \* number of create_fresh_variable() calls after construction
MaxAddsFresh == 2   \* add_clause calls in the runs that call create_fresh_variable()
NumVarsReduce == 3      \* num_vars in the runs that call universal_reduction
MaxClauseLenReduce == 3 \* longest clause handed to universal_reduction
MaxReductions == 1      \* number of universal_reduction calls made by the caller
MaxWords == 3            \* words on one line of a file, the quantifier letter included
MaxLines == 2            \* lines of a file after its header
MaxClausesConstruct == 2 \* clauses of the QDimacs value a Formula is constructed from

MaxVarIndex ==
    IF NumVars + MaxFresh >= NumVarsReduce THEN NumVars + MaxFresh
    ELSE NumVarsReduce
VarIndices == 1..MaxVarIndex
Gens == 0..MaxFresh

FORALL == "forall"
EXISTS == "exists"

NoValue == -1

\* Clause objects built in a call of the caller, those built while the
\* Variable object (index, gen) is eliminated, and the one Clause object the
\* lru_cache of generate_empty_clause holds
ByCaller == <<0, 0>>

ByElimination(variable) == <<variable.index, variable.gen>>

ByCache == <<0, 1>>

\* ------------------------------------------------------- parse.QuantifierBlock
QuantifierBlock(bound_variables, quantifier_type) ==
    [bound_variables |-> bound_variables, quantifier_type |-> quantifier_type]

is_forall(block) == block.quantifier_type = FORALL

is_exists(block) == block.quantifier_type = EXISTS

SeqToSet(s) == {s[i] : i \in 1..Len(s)}

\* quantifier prefixes of the inputs the formula is built from
Prefixes ==
    { <<>>,
      <<QuantifierBlock(<<1>>, FORALL), QuantifierBlock(<<2>>, EXISTS)>>,
      <<QuantifierBlock(<<1>>, EXISTS), QuantifierBlock(<<2>>, FORALL)>> }

\* ------------------------------------------------------------------ Literal
Literal(variable, is_positive, gen) ==
    [variable |-> variable, is_positive |-> is_positive, gen |-> gen]

LiteralObjects ==
    [variable : VarIndices, is_positive : BOOLEAN, gen : Gens]

literal_index(l) == IF l.is_positive THEN l.variable ELSE -l.variable

\* Literal.__eq__
LiteralEq(a, b) == a.variable = b.variable /\ a.is_positive = b.is_positive

\* Literal.__neg__: a new Literal object, not one owned by a Variable
LiteralNeg(l) == Literal(l.variable, ~l.is_positive, 0)

\* ------------------------------------------------------------------ Variable
Variable(index, quantifier, dependencies, gen) ==
    [index |-> index, quantifier |-> quantifier,
     dependencies |-> dependencies, gen |-> gen]

get_literal(var, is_positive) == Literal(var.index, is_positive, var.gen)

\* ------------------------------------------------------------------- Clause
Clause(literals, index, is_original, obj) ==
    [literals |-> literals, index |-> index,
     is_original |-> is_original, obj |-> obj]

\* the set of signed indices Clause.__hash__ is computed from
Key(c) == {literal_index(l) : l \in c.literals}

\* Clause.__eq__ on two clauses: frozenset equality under Literal.__eq__
ClauseEq(c, d) == Key(c) = Key(d)

\* Clause.__eq__ on a value that is not a Clause: isinstance fails
ClauseEqNonClause(c, value) == FALSE

\* a test that finds no clause tautological
is_tautology_Never(c) == FALSE

\* Clause.is_tautology: some literal's negation is in the clause too
is_tautology(c) ==
    \E l \in c.literals : \E m \in c.literals : LiteralEq(m, LiteralNeg(l))

\* Python set of clauses (hash/eq by literal set)
PySetContains(s, c) == \E d \in s : ClauseEq(d, c)

PySetAdd(s, c) == IF PySetContains(s, c) THEN s ELSE s \cup {c}

\* frozenset(iterable of literals): the first of several equal literals stays
FrozenSetChain(first, second) ==
    first \cup {l \in second : ~\E m \in first : LiteralEq(m, l)}

VARIABLES
    quantifiers,                   \* Formula.quantifiers
    variables_by_index,            \* Formula.variables_by_index
    clauses,                       \* Formula.clauses
    clauses_by_index,              \* Formula.clauses_by_index
    occurrences,                   \* Literal.occurrences of every Literal object
    largest_used_variable_index,   \* Formula._largest_used_variable_index
    largest_used_clause_index,     \* Formula._largest_used_clause_index
    empty_clause_cache,            \* lru_cache of generate_empty_clause
    variables_created,             \* Variable objects created so far, per index
    n_added,                       \* clauses built and handed in by the caller
    n_fresh,                       \* create_fresh_variable() calls made by the caller
    last,                          \* the last call: operation, outcome, arguments, result
    issued_clause_ids,             \* ids next_fresh_clause_index returned in the last call
    ever_live_ids,                 \* ids of all clauses that are or were live
    file_content,                  \* the text handed to from_qdimacs, solve_file or main
    puzzle,                        \* the QDimacs value from_qdimacs returned, if any
    solution,                      \* what the solving entry point returned
    output                         \* what main printed and its exit status

vars == <<quantifiers, variables_by_index, clauses, clauses_by_index,
          occurrences, largest_used_variable_index, largest_used_clause_index,
          empty_clause_cache, variables_created, n_added,
          n_fresh, last, issued_clause_ids, ever_live_ids,
          file_content, puzzle, solution, output>>

\* the state of the reader and of the solving entry points
lib_vars == <<file_content, puzzle, solution, output>>

\* nothing returned yet
NoSolution == ""

\* nothing printed, process not exited
NoOutput == [stdout |-> "", stderr |-> "", status |-> 0, exited |-> FALSE]

\* no file was read and no solving entry point was called
NoLibCall ==
    /\ file_content = <<>>
    /\ puzzle = <<>>
    /\ solution = NoSolution
    /\ output = NoOutput

\* what is recorded of a call: the operation, "ok" or the exception raised,
\* an index (argument or returned), the literals of a clause argument, the
\* clauses passed and the clauses returned
Call(op, result, value, arg, given, returned) ==
    [op |-> op, result |-> result, value |-> value, arg |-> arg,
     given |-> given, returned |-> returned]

\* ------------------------------------------------------- Formula.__init__
BoundVariables(q) == UNION {SeqToSet(q[i].bound_variables) : i \in 1..Len(q)}

UniversalVariablesUpTo(q, k) ==
    UNION {SeqToSet(q[i].bound_variables) : i \in {j \in 1..k : is_forall(q[j])}}

BlockOf(q, x) == CHOOSE i \in 1..Len(q) : x \in SeqToSet(q[i].bound_variables)

\* `universal_variables` is one set object: a non-empty set handed to
\* create_fresh_variable is stored by reference and keeps growing, an empty
\* one is replaced by a new set (dependencies or set())
InitDependencies(q, x) ==
    IF x \in BoundVariables(q) /\ is_exists(q[BlockOf(q, x)])
       /\ UniversalVariablesUpTo(q, BlockOf(q, x)) # {}
    THEN UniversalVariablesUpTo(q, Len(q))
    ELSE {}

\* a construction that makes every variable existential
InitVariables_AllExistential(q, num_vars) ==
    [x \in BoundVariables(q) \cup (1..num_vars) |-> Variable(x, EXISTS, {}, 0)]

\* the variables of the first two loops of Formula.__init__
InitVariables(q, num_vars) ==
    [x \in BoundVariables(q) \cup (1..num_vars) |->
        Variable(x,
                 IF x \in BoundVariables(q)
                 THEN q[BlockOf(q, x)].quantifier_type ELSE EXISTS,
                 InitDependencies(q, x),
                 0)]

Init ==
    /\ quantifiers \in Prefixes
    /\ variables_by_index = InitVariables(quantifiers, NumVars)
    /\ clauses = {}
    /\ clauses_by_index = <<>>
    /\ occurrences = [l \in LiteralObjects |-> {}]
    /\ largest_used_variable_index = 1
    /\ largest_used_clause_index = 0
    /\ empty_clause_cache = <<>>
    /\ variables_created =
          [x \in VarIndices |-> IF x \in DOMAIN variables_by_index THEN 1 ELSE 0]
    /\ n_added = 0
    /\ n_fresh = 0
    /\ last = Call("init", "ok", NoValue, {}, <<>>, <<>>)
    /\ issued_clause_ids = {}
    /\ ever_live_ids = {}
    /\ NoLibCall

\* --------------------------------------------------- fresh indices
RECURSIVE next_fresh_variable_index(_, _)
next_fresh_variable_index(largest, by_index) ==
    IF largest \in DOMAIN by_index
    THEN next_fresh_variable_index(largest + 1, by_index)
    ELSE largest

RECURSIVE next_fresh_clause_index(_, _)
next_fresh_clause_index(largest, by_index) ==
    IF largest \in DOMAIN by_index
    THEN next_fresh_clause_index(largest + 1, by_index)
    ELSE largest

\* ------------------------------------------------- the clause database
\* The part of the Formula that add_clause reads and writes; `raised` is
\* the exception that ended the call, or "ok".
Database(cl, by_index, occ) ==
    [clauses |-> cl, clauses_by_index |-> by_index, occurrences |-> occ,
     raised |-> "ok"]

MapPut(m, k, v) == [i \in DOMAIN m \cup {k} |-> IF i = k THEN v ELSE m[i]]

MapDelete(m, ks) == [i \in DOMAIN m \ ks |-> m[i]]

\* min(clause.literals, key=len(occurrences)): any literal of minimal count
RarestLiterals(D, clause) ==
    {l \in clause.literals :
        \A m \in clause.literals :
            Cardinality(D.occurrences[l]) <= Cardinality(D.occurrences[m])}

\* a test that finds no clause redundant
is_clause_subsumed_Never(D, clause, rarest_literal) == FALSE

is_clause_subsumed(D, clause, rarest_literal) ==
    IF PySetContains(D.clauses, clause) THEN TRUE
    ELSE IF is_tautology(clause) THEN TRUE
    ELSE IF clause.literals = {} THEN FALSE
    ELSE LET candidate_clauses ==
                 {c \in D.occurrences[rarest_literal] :
                     Cardinality(c.literals) <= Cardinality(clause.literals)}
         IN  \E other \in candidate_clauses : Key(other) \subseteq Key(clause)

\* assert clause.index not in self.clauses: an int looked up in a set of Clauses
add_clause_assertion(D, clause) ==
    ~\E c \in D.clauses : ClauseEqNonClause(c, clause.index)

\* an insertion that tests nothing and keeps every clause object it is given
add_clause_Unchecked(D, clause, rarest_literal) ==
    [D EXCEPT
       !.clauses = D.clauses \cup {clause},
       !.clauses_by_index = MapPut(D.clauses_by_index, clause.index, clause),
       !.occurrences =
           [l \in DOMAIN D.occurrences |->
               IF l \in clause.literals THEN D.occurrences[l] \cup {clause}
               ELSE D.occurrences[l]]]

\* add_clause(clause), with the literal min() picks as the rarest
add_clause(D, clause, rarest_literal) ==
    IF ~add_clause_assertion(D, clause)
    THEN [D EXCEPT !.raised = "TypeError"]  \* the assert message subscripts a set
    ELSE IF is_clause_subsumed(D, clause, rarest_literal) THEN D
    ELSE [D EXCEPT
            !.clauses = PySetAdd(D.clauses, clause),
            !.clauses_by_index = MapPut(D.clauses_by_index, clause.index, clause),
            !.occurrences =
                [l \in DOMAIN D.occurrences |->
                    IF l \in clause.literals
                    THEN PySetAdd(D.occurrences[l], clause)
                    ELSE D.occurrences[l]]]

\* every outcome of add_clause, over the ties of the rarest literal
add_clause_outcomes(D, clause) ==
    IF clause.literals = {}
    THEN {add_clause(D, clause, Literal(1, TRUE, 0))}  \* min() is not reached
    ELSE {add_clause(D, clause, r) : r \in RarestLiterals(D, clause)}

\* for resolvent in resolvents: self.add_clause(resolvent)
RECURSIVE add_all_outcomes(_, _)
add_all_outcomes(D, resolvents) ==
    IF resolvents = <<>> \/ D.raised # "ok" THEN {D}
    ELSE UNION {add_all_outcomes(D2, Tail(resolvents)) :
                    D2 \in add_clause_outcomes(D, Head(resolvents))}

\* ------------------------------------------------------------ resolve
\* a resolve without its three assertions
resolve_raises_Never(by_index, variables, clause1, clause2, variable) == "ok"

\* the exception resolve raises on its arguments, or "ok"
resolve_raises(by_index, variables, clause1, clause2, variable) ==
    IF variable.index \notin DOMAIN variables THEN "AssertionError"
    ELSE IF clause1.index \notin DOMAIN by_index THEN "KeyError"
    ELSE IF by_index[clause1.index] # clause1 THEN "AssertionError"
    ELSE IF clause2.index \notin DOMAIN by_index THEN "KeyError"
    ELSE IF by_index[clause2.index] # clause2 THEN "AssertionError"
    ELSE "ok"

resolve(clause1, clause2, variable, fresh_index, obj) ==
    LET both_literals == FrozenSetChain(clause1.literals, clause2.literals)
        literals == {l \in both_literals : l.variable # variable.index}
    IN  Clause(literals, fresh_index, FALSE, obj)

\* -------------------------------------------------- generate_empty_clause
generate_empty_clause(cache, fresh_index) ==
    IF cache # <<>> THEN cache[1] ELSE Clause({}, fresh_index, FALSE, ByCache)

\* -------------------------------------------------- universal_reduction
InPrefix(q, x) == \E i \in 1..Len(q) : x \in SeqToSet(q[i].bound_variables)

\* enumerate(self.quantifiers) fills the dicts: a later block overwrites
LastBlockOf(q, x) ==
    CHOOSE i \in 1..Len(q) :
        /\ x \in SeqToSet(q[i].bound_variables)
        /\ \A j \in (i + 1)..Len(q) : x \notin SeqToSet(q[j].bound_variables)

var_to_level(q, x) == LastBlockOf(q, x) - 1

var_to_quantifier(q, x) == q[LastBlockOf(q, x)].quantifier_type

universal_literals(q, clause) ==
    {l \in clause.literals :
        InPrefix(q, l.variable) /\ var_to_quantifier(q, l.variable) = FORALL}

existential_literals(q, clause) ==
    {l \in clause.literals :
        ~(InPrefix(q, l.variable) /\ var_to_quantifier(q, l.variable) = FORALL)}

\* a rule that puts an unbound variable at the outermost level
can_reduce_UnboundOutermost(q, clause, universal_lit) ==
    \E existential_lit \in existential_literals(q, clause) :
        \/ ~InPrefix(q, existential_lit.variable)
        \/ var_to_level(q, universal_lit.variable)
              > var_to_level(q, existential_lit.variable)

\* the rule of the docstring: to the right of all existential literals
can_reduce_RightOfAll(q, clause, universal_lit) ==
    \A existential_lit \in existential_literals(q, clause) :
        /\ InPrefix(q, existential_lit.variable)
        /\ var_to_level(q, universal_lit.variable)
              > var_to_level(q, existential_lit.variable)

\* universal_level > existential_level, float("inf") for an unbound variable
can_reduce(q, clause, universal_lit) ==
    \E existential_lit \in existential_literals(q, clause) :
        /\ InPrefix(q, existential_lit.variable)
        /\ var_to_level(q, universal_lit.variable)
              > var_to_level(q, existential_lit.variable)

reduced_literals(q, clause) ==
    existential_literals(q, clause)
        \cup {l \in universal_literals(q, clause) : ~can_reduce(q, clause, l)}

corrected_literals(q, variables, clause) ==
    {get_literal(variables[l.variable], l.is_positive) :
        l \in {m \in reduced_literals(q, clause) : m.variable \in DOMAIN variables}}

\* TRUE iff universal_reduction gets to call generate_empty_clause
reduction_generates_empty(q, variables, clause) ==
    /\ q # <<>>
    /\ Cardinality(reduced_literals(q, clause)) # Cardinality(clause.literals)
    /\ corrected_literals(q, variables, clause) = {}

\* a reduction that builds a new clause from the reduced literals every time
universal_reduction_AlwaysNew(q, variables, clause, fresh_index, cache, obj) ==
    IF corrected_literals(q, variables, clause) = {}
    THEN generate_empty_clause(cache, fresh_index)
    ELSE Clause(corrected_literals(q, variables, clause), fresh_index, FALSE, obj)

\* universal_reduction(clause); fresh_index is what next_fresh_clause_index()
\* returns, cache the lru_cache of generate_empty_clause
universal_reduction(q, variables, clause, fresh_index, cache, obj) ==
    IF q = <<>> THEN clause
    ELSE IF Cardinality(reduced_literals(q, clause)) = Cardinality(clause.literals)
    THEN clause
    ELSE IF corrected_literals(q, variables, clause) = {}
    THEN generate_empty_clause(cache, fresh_index)
    ELSE Clause(corrected_literals(q, variables, clause), fresh_index, FALSE, obj)

\* ------------------------------------------------------------ the calls
\* no call is made after one has raised: the exception ends the run
Running == last.result = "ok"

CurrentDatabase == Database(clauses, clauses_by_index, occurrences)

LiveIds(cl) == {c.index : c \in cl}

\* clause arguments: non-empty, 0-free lists of literals of live variables
ClauseInputs ==
    {lits \in SUBSET {l \in (-MaxVarIndex)..MaxVarIndex :
                          l # 0 /\ (IF l < 0 THEN -l ELSE l) \in DOMAIN variables_by_index} :
        Cardinality(lits) \in 1..MaxClauseLen}

get_literal_by_index(variables, lit) ==
    get_literal(variables[IF lit < 0 THEN -lit ELSE lit], lit > 0)

create_clause_from_qdimacs(variables, lits, index, obj) ==
    Clause({get_literal_by_index(variables, lit) : lit \in lits}, index, TRUE, obj)

\* clause = self.create_clause_from_qdimacs(clause, index); self.add_clause(clause)
\* with the index enumerate() gives: the number of clauses handed in before
AddClause(lits) ==
    /\ Running
    /\ n_added < MaxAdds
    /\ LET clause == create_clause_from_qdimacs(variables_by_index, lits,
                                                n_added, ByCaller)
       IN  \E D2 \in add_clause_outcomes(CurrentDatabase, clause) :
              /\ clauses' = D2.clauses
              /\ clauses_by_index' = D2.clauses_by_index
              /\ occurrences' = D2.occurrences
              /\ ever_live_ids' = ever_live_ids \cup LiveIds(D2.clauses)
              /\ last' = Call("add_clause", D2.raised, NoValue, lits, <<>>, <<>>)
    /\ n_added' = n_added + 1
    /\ issued_clause_ids' = {}
    /\ UNCHANGED lib_vars
    /\ UNCHANGED <<quantifiers, variables_by_index, largest_used_variable_index,
                   largest_used_clause_index, empty_clause_cache,
                   variables_created, n_fresh>>

\* a membership test by object identity
contains_empty_clause_ByIdentity(cl, cache, fresh_index) ==
    generate_empty_clause(cache, fresh_index) \in cl

\* contains_empty_clause(): generate_empty_clause() in self.clauses
contains_empty_clause(cl, cache, fresh_index) ==
    PySetContains(cl, generate_empty_clause(cache, fresh_index))

\* The call changes the Formula only when it materializes the cached empty
\* clause; its return value is contains_empty_clause of the state.
ContainsEmptyClause ==
    /\ Running
    /\ empty_clause_cache = <<>>
    /\ LET fresh == next_fresh_clause_index(largest_used_clause_index,
                                            clauses_by_index)
       IN  /\ empty_clause_cache' =
                 <<generate_empty_clause(empty_clause_cache, fresh)>>
           /\ largest_used_clause_index' = fresh
           /\ issued_clause_ids' = {fresh}
    /\ last' = Call("contains_empty_clause", "ok", NoValue, {}, <<>>, <<>>)
    /\ UNCHANGED lib_vars
    /\ UNCHANGED <<quantifiers, variables_by_index, clauses, clauses_by_index,
                   occurrences, largest_used_variable_index, variables_created,
                   n_added, n_fresh, ever_live_ids>>

\* create_fresh_variable(): no index, EXISTS, no dependencies
CreateFreshVariable ==
    /\ Running
    /\ n_fresh < MaxFresh
    /\ LET index == next_fresh_variable_index(largest_used_variable_index,
                                              variables_by_index)
       IN  /\ largest_used_variable_index' = index
           /\ variables_by_index' =
                 MapPut(variables_by_index, index,
                        Variable(index, EXISTS, {}, variables_created[index]))
           /\ variables_created' =
                 [variables_created EXCEPT ![index] = @ + 1]
           /\ last' = Call("create_fresh_variable", "ok", index, {}, <<>>, <<>>)
    /\ n_fresh' = n_fresh + 1
    /\ issued_clause_ids' = {}
    /\ UNCHANGED lib_vars
    /\ UNCHANGED <<quantifiers, clauses, clauses_by_index, occurrences,
                   largest_used_clause_index, empty_clause_cache,
                   n_added, ever_live_ids>>

\* the orders in which a Python set can be iterated
IterationOrders(S) ==
    {f \in [1..Cardinality(S) -> S] :
        \A i, j \in 1..Cardinality(S) : i # j => f[i] # f[j]}

Min(S) == CHOOSE x \in S : \A y \in S : x <= y

\* --------------------------------------------------- eliminate_variable
\* a retire loop that takes out every live clause carrying a retired id
RetiredFromClauses_ByIndex(cl, retired) ==
    {d \in cl : ~\E c \in retired : c.index = d.index}

\* the clauses the retire loop of eliminate_variable takes out of the live set
RetiredFromClauses(cl, retired) ==
    {d \in cl : ~\E c \in retired : ClauseEq(c, d)}

\* the pairs of the nested loops, outer over the positive occurrences
PairAt(seqP, seqN, k) ==
    <<seqP[((k - 1) \div Len(seqN)) + 1], seqN[((k - 1) % Len(seqN)) + 1]>>

\* eliminate_variable(variable) under one iteration order of the two
\* occurrence sets
EliminateInOrder(v, seqP, seqN) ==
    LET variable == variables_by_index[v]
        npairs == Len(seqP) * Len(seqN)
        fresh == next_fresh_clause_index(largest_used_clause_index,
                                         clauses_by_index)
        empty == generate_empty_clause(empty_clause_cache, fresh)
        raises(k) ==
            resolve_raises(clauses_by_index, variables_by_index,
                           PairAt(seqP, seqN, k)[1], PairAt(seqP, seqN, k)[2],
                           variable)
        resolvent(k) ==
            resolve(PairAt(seqP, seqN, k)[1], PairAt(seqP, seqN, k)[2],
                    variable, fresh, ByElimination(variable))
        reduced(k) ==
            universal_reduction(quantifiers, variables_by_index, resolvent(k),
                                fresh, <<empty>>, ByElimination(variable))
        generates_empty(k) ==
            reduction_generates_empty(quantifiers, variables_by_index,
                                      resolvent(k))
        failing == {k \in 1..npairs : raises(k) # "ok"}
        done == IF failing = {} THEN npairs ELSE Min(failing) - 1
        retired == SeqToSet(seqP) \cup SeqToSet(seqN)
        D0 == Database(RetiredFromClauses(clauses, retired),
                       MapDelete(clauses_by_index, {c.index : c \in retired}),
                       occurrences)
    IN  /\ largest_used_clause_index' =
              IF done > 0 THEN fresh ELSE largest_used_clause_index
        /\ issued_clause_ids' = IF done > 0 THEN {fresh} ELSE {}
        /\ empty_clause_cache' =
              IF \E k \in 1..done : generates_empty(k)
              THEN <<empty>> ELSE empty_clause_cache
        /\ IF failing # {}
           THEN \* resolve raised: nothing has been retired or inserted yet
                /\ last' = Call("eliminate_variable", raises(Min(failing)),
                                 v, {}, <<>>, <<>>)
                /\ UNCHANGED <<variables_by_index, clauses, clauses_by_index,
                               occurrences, ever_live_ids>>
           ELSE \E D2 \in add_all_outcomes(D0, [k \in 1..npairs |-> reduced(k)]) :
                /\ clauses' = D2.clauses
                /\ clauses_by_index' = D2.clauses_by_index
                /\ occurrences' = D2.occurrences
                /\ variables_by_index' = MapDelete(variables_by_index, {v})
                /\ ever_live_ids' = ever_live_ids \cup LiveIds(D2.clauses)
                /\ last' = Call("eliminate_variable", D2.raised,
                                 v, {}, <<>>, <<>>)

EliminateVariable(v) ==
    /\ Running
    /\ v \in DOMAIN variables_by_index
    /\ \E seqP \in IterationOrders(
                     occurrences[get_literal(variables_by_index[v], TRUE)]) :
         \E seqN \in IterationOrders(
                     occurrences[get_literal(variables_by_index[v], FALSE)]) :
            EliminateInOrder(v, seqP, seqN)
    /\ UNCHANGED lib_vars
    /\ UNCHANGED <<quantifiers, largest_used_variable_index, variables_created,
                   n_added, n_fresh>>

\* indices of the variables eliminated so far: every Variable object that was
\* created and is not the live one of its index
eliminated ==
    {x \in VarIndices :
        variables_created[x] > (IF x \in DOMAIN variables_by_index THEN 1 ELSE 0)}

\* any sequence of add_clause, eliminate_variable and contains_empty_clause
\* calls on the constructed Formula
Next ==
    \/ \E lits \in ClauseInputs : AddClause(lits)
    \/ \E v \in VarIndices : EliminateVariable(v)
    \/ ContainsEmptyClause

Spec == Init /\ [][Next]_vars

\* the same with create_fresh_variable() calls
NextFresh ==
    \/ \E lits \in ClauseInputs : n_added < MaxAddsFresh /\ AddClause(lits)
    \/ \E v \in VarIndices : EliminateVariable(v)
    \/ ContainsEmptyClause
    \/ CreateFreshVariable

SpecFresh == Init /\ [][NextFresh]_vars

\* the Clause objects the Formula still refers to: live, registered under an
\* id, or left in an occurrence set
KnownClauses ==
    clauses \cup {clauses_by_index[i] : i \in DOMAIN clauses_by_index}
            \cup UNION {occurrences[l] : l \in DOMAIN occurrences}

\* ------------------------------------------ direct universal_reduction calls
\* prefixes of one-variable blocks over the first k variables, every
\* assignment of quantifier types; the other variables stay unquantified
PrefixesReduce ==
    UNION {{[i \in 1..k |-> QuantifierBlock(<<i>>, f[i])] :
               f \in [1..k -> {FORALL, EXISTS}]} : k \in 0..NumVarsReduce}

InitReduce ==
    /\ quantifiers \in PrefixesReduce
    /\ variables_by_index = InitVariables(quantifiers, NumVarsReduce)
    /\ clauses = {}
    /\ clauses_by_index = <<>>
    /\ occurrences = [l \in LiteralObjects |-> {}]
    /\ largest_used_variable_index = 1
    /\ largest_used_clause_index = 0
    /\ empty_clause_cache = <<>>
    /\ variables_created =
          [x \in VarIndices |-> IF x \in DOMAIN variables_by_index THEN 1 ELSE 0]
    /\ n_added = 0
    /\ n_fresh = 0
    /\ last = Call("init", "ok", NoValue, {}, <<>>, <<>>)
    /\ issued_clause_ids = {}
    /\ ever_live_ids = {}
    /\ NoLibCall

\* literal lists over the variables created so far
ClauseInputsReduce ==
    {lits \in SUBSET {l \in (-MaxVarIndex)..MaxVarIndex :
                          l # 0 /\ variables_created[IF l < 0 THEN -l ELSE l] > 0} :
        Cardinality(lits) \in 1..MaxClauseLenReduce}

\* the clauses universal_reduction is called on: each was built by the
\* caller with create_clause_from_qdimacs while its variables were live, so
\* it holds the Literal objects of the Variable objects last created, some
\* of which may have been eliminated since
ReductionInputs ==
    {Clause({Literal(IF lit < 0 THEN -lit ELSE lit, lit > 0,
                     variables_created[IF lit < 0 THEN -lit ELSE lit] - 1) :
                lit \in lits},
            n_added, TRUE, ByCaller) : lits \in ClauseInputsReduce}

\* universal_reduction(clause) called by the user of the Formula
UniversalReduction(clause) ==
    /\ Running
    /\ n_added < MaxReductions
    /\ LET fresh == next_fresh_clause_index(largest_used_clause_index,
                                            clauses_by_index)
           result == universal_reduction(quantifiers, variables_by_index,
                                         clause, fresh, empty_clause_cache,
                                         ByCaller)
           generated == reduction_generates_empty(quantifiers,
                                                  variables_by_index, clause)
           \* next_fresh_clause_index() ran: a Clause object was constructed
           constructed == result # clause
                             /\ ~(generated /\ empty_clause_cache # <<>>)
       IN  /\ last' = Call("universal_reduction", "ok", NoValue, {},
                           <<clause>>, <<result>>)
           /\ empty_clause_cache' =
                 IF generated THEN <<result>> ELSE empty_clause_cache
           /\ largest_used_clause_index' =
                 IF constructed THEN fresh ELSE largest_used_clause_index
           /\ issued_clause_ids' = IF constructed THEN {fresh} ELSE {}
    /\ n_added' = n_added + 1
    /\ UNCHANGED lib_vars
    /\ UNCHANGED <<quantifiers, variables_by_index, clauses, clauses_by_index,
                   occurrences, largest_used_variable_index, variables_created,
                   n_fresh, ever_live_ids>>

\* calls of eliminate_variable, contains_empty_clause and universal_reduction
\* in any order on a Formula without clauses
NextReduce ==
    \/ \E v \in VarIndices : EliminateVariable(v)
    \/ ContainsEmptyClause
    \/ \E clause \in ReductionInputs : UniversalReduction(clause)

SpecReduce == InitReduce /\ [][NextReduce]_vars

\* ------------------------------------------- Formula(qdimacs), all of it
\* a QDimacs value is at hand and Formula.__init__ has not run yet:
\* `quantifiers` holds qdimacs.quantifiers, last.value holds qdimacs.num_vars
InitConstruct ==
    /\ quantifiers \in PrefixesReduce
    /\ variables_by_index = <<>>
    /\ clauses = {}
    /\ clauses_by_index = <<>>
    /\ occurrences = [l \in LiteralObjects |-> {}]
    /\ largest_used_variable_index = 1
    /\ largest_used_clause_index = 0
    /\ empty_clause_cache = <<>>
    /\ variables_created = [x \in VarIndices |-> 0]
    /\ n_added = 0
    /\ n_fresh = 0
    /\ last \in {Call("QDimacs", "ok", num_vars, {}, <<>>, <<>>) :
                    num_vars \in 1..NumVarsReduce}
    /\ issued_clause_ids = {}
    /\ ever_live_ids = {}
    /\ NoLibCall

\* qdimacs.clauses: lists of literals over the variable indices of the model
ClauseLists ==
    LET literal_lists ==
            {lits \in SUBSET {l \in (-MaxVarIndex)..MaxVarIndex : l # 0} :
                Cardinality(lits) \in 1..MaxClauseLen}
    IN  UNION {[1..n -> literal_lists] : n \in 0..MaxClausesConstruct}

\* the variables Formula.__init__ creates: those of the quantifier blocks,
\* the indices 1..num_vars, and those of the clause literals
ConstructedVariables(q, num_vars, clause_list) ==
    LET declared == InitVariables(q, num_vars)
        mentioned == {IF l < 0 THEN -l ELSE l :
                         l \in UNION {clause_list[k] : k \in DOMAIN clause_list}}
    IN  [x \in DOMAIN declared \cup mentioned |->
            IF x \in DOMAIN declared THEN declared[x]
            ELSE Variable(x, EXISTS, {}, 0)]

\* Formula.__init__(qdimacs) with qdimacs.clauses = clause_list
Construct(clause_list) ==
    /\ last.op = "QDimacs"
    /\ LET num_vars == last.value
           variables == ConstructedVariables(quantifiers, num_vars, clause_list)
           built == [k \in DOMAIN clause_list |->
                        create_clause_from_qdimacs(variables, clause_list[k],
                                                   k - 1, ByCaller)]
       IN  /\ variables_by_index' = variables
           /\ variables_created' =
                 [x \in VarIndices |-> IF x \in DOMAIN variables THEN 1 ELSE 0]
           /\ \E D2 \in add_all_outcomes(CurrentDatabase, built) :
                 /\ clauses' = D2.clauses
                 /\ clauses_by_index' = D2.clauses_by_index
                 /\ occurrences' = D2.occurrences
                 /\ ever_live_ids' = LiveIds(D2.clauses)
                 /\ last' = Call("init", D2.raised, num_vars,
                                 UNION {clause_list[k] : k \in DOMAIN clause_list},
                                 <<>>, <<>>)
    /\ n_added' = Len(clause_list)
    /\ issued_clause_ids' = {}
    /\ UNCHANGED lib_vars
    /\ UNCHANGED <<quantifiers, largest_used_variable_index,
                   largest_used_clause_index, empty_clause_cache, n_fresh>>

NextConstruct == \E clause_list \in ClauseLists : Construct(clause_list)

SpecConstruct == InitConstruct /\ [][NextConstruct]_vars

\* ------------------------------------------------------ direct resolve calls
\* the Variable object last created under index x (resolve reads its index only)
VariableObject(x) ==
    IF x \in DOMAIN variables_by_index THEN variables_by_index[x]
    ELSE Variable(x, EXISTS, {}, variables_created[x] - 1)

\* resolve(clause1, clause2, variable) called by the user of the Formula
Resolve(clause1, clause2, x) ==
    /\ Running
    /\ variables_created[x] > 0
    /\ LET variable == VariableObject(x)
           raised == resolve_raises(clauses_by_index, variables_by_index,
                                    clause1, clause2, variable)
           fresh == next_fresh_clause_index(largest_used_clause_index,
                                            clauses_by_index)
       IN  IF raised # "ok"
           THEN /\ last' = Call("resolve", raised, x, {},
                                <<clause1, clause2>>, <<>>)
                /\ issued_clause_ids' = {}
                /\ UNCHANGED largest_used_clause_index
           ELSE /\ last' = Call("resolve", "ok", x, {}, <<clause1, clause2>>,
                                <<resolve(clause1, clause2, variable, fresh,
                                          ByCaller)>>)
                /\ issued_clause_ids' = {fresh}
                /\ largest_used_clause_index' = fresh
    /\ UNCHANGED lib_vars
    /\ UNCHANGED <<quantifiers, variables_by_index, clauses, clauses_by_index,
                   occurrences, largest_used_variable_index, empty_clause_cache,
                   variables_created, n_added, n_fresh, ever_live_ids>>

\* calls of add_clause, eliminate_variable, contains_empty_clause and
\* resolve in any order
NextResolve ==
    \/ \E lits \in ClauseInputs : AddClause(lits)
    \/ \E v \in VarIndices : EliminateVariable(v)
    \/ ContainsEmptyClause
    \/ \E clause1 \in KnownClauses : \E clause2 \in KnownClauses :
          \E x \in VarIndices : Resolve(clause1, clause2, x)

SpecResolve == Init /\ [][NextResolve]_vars

\* the same with create_fresh_variable() calls
NextResolveFresh ==
    \/ \E lits \in ClauseInputs : n_added < MaxAddsFresh /\ AddClause(lits)
    \/ \E v \in VarIndices : EliminateVariable(v)
    \/ ContainsEmptyClause
    \/ CreateFreshVariable
    \/ \E clause1 \in KnownClauses : \E clause2 \in KnownClauses :
          \E x \in VarIndices : Resolve(clause1, clause2, x)

SpecResolveFresh == Init /\ [][NextResolveFresh]_vars

\* what contains_empty_clause() returns when called in the current state
ContainsEmptyClauseValue ==
    contains_empty_clause(clauses, empty_clause_cache,
                          next_fresh_clause_index(largest_used_clause_index,
                                                  clauses_by_index))

\* ================================================================ claims

Mentions(c, v) == \E l \in c.literals : l.variable = v

KeysOf(cl) == {Key(c) : c \in cl}

\* C1: in every reachable state the occurrence set of each literal of every
\* live variable is exactly the set of live clauses that contain that
\* literal: no retired clause remains in it, no live clause is missing.
C1_OccurrencesAreLiveClauses ==
    \A x \in DOMAIN variables_by_index : \A is_positive \in BOOLEAN :
        LET literal == get_literal(variables_by_index[x], is_positive)
        IN  occurrences[literal]
               = {c \in clauses : \E l \in c.literals : LiteralEq(l, literal)}

\* C2: in every reachable state no live clause's literal set is a proper
\* superset of another live clause's literal set.
C2_NoLiveClauseSubsumed ==
    \A c \in clauses : \A d \in clauses :
        ~(Key(d) \subseteq Key(c) /\ Key(d) # Key(c))

\* C3: add_clause(c) discards c, so that the live set stays as it was,
\* whenever some live clause's literal set is a subset of c's literal set.
C3_SubsumedCandidateDiscarded ==
    [][\A lits \in ClauseInputs :
          (AddClause(lits) /\ \E d \in clauses : Key(d) \subseteq lits)
              => clauses' = clauses]_vars

\* C4: in every reachable state no two distinct live clauses carry the same
\* id, the resolvents of one eliminate_variable call and the cached empty
\* clause included.
C4_LiveIdsUnique ==
    \A c \in clauses : \A d \in clauses : c # d => c.index # d.index

\* C5: every id that next_fresh_clause_index hands to a derived clause is one
\* that no earlier clause, live or retired, has held.
C5_DerivedIdNeverHeldBefore ==
    [][\A i \in issued_clause_ids' : i \notin ever_live_ids]_vars

\* C6: create_fresh_variable() never returns the index of a variable that
\* was eliminated earlier.
C6_FreshVariableNotEliminated ==
    last.op = "create_fresh_variable" => last.value \notin eliminated

\* C7: add_clause(c) raises, leaving the database unchanged, whenever c's id
\* is registered in the id map to a live clause.
C7_RegisteredIdRejected ==
    [][(/\ n_added' = n_added + 1
        /\ n_added \in DOMAIN clauses_by_index
        /\ clauses_by_index[n_added] \in clauses)
          => /\ last'.result # "ok"
             /\ UNCHANGED <<clauses, clauses_by_index, occurrences>>]_vars

\* C8: after eliminate_variable(v) on a live variable v, v is absent from
\* the live variable map and no live clause contains a literal on v.
C8_EliminatedVariableGone ==
    last.op = "eliminate_variable"
        => /\ last.value \notin DOMAIN variables_by_index
           /\ \A c \in clauses : ~Mentions(c, last.value)

\* the universally reduced resolvents of the cross product of the live
\* clauses with v positive and the live clauses with v negative
LiveResolventKeys(v) ==
    LET variable == variables_by_index[v]
        fresh == next_fresh_clause_index(largest_used_clause_index,
                                         clauses_by_index)
        empty == generate_empty_clause(empty_clause_cache, fresh)
    IN  {Key(universal_reduction(
                 quantifiers, variables_by_index,
                 resolve(p, n, variable, fresh, ByElimination(variable)),
                 fresh, <<empty>>, ByElimination(variable))) :
            p \in {c \in clauses : v \in Key(c)},
            n \in {c \in clauses : (-v) \in Key(c)}}

\* C9: eliminate_variable(v) on a live v decreases the number of live
\* variables by exactly one and leaves as live exactly the previously live
\* clauses that do not mention v plus the reduced resolvents of the full
\* cross product that add_clause does not discard (a discarded resolvent is
\* a tautology or has a live clause's literal set within its own).
C9_EliminationResult ==
    [][\A v \in DOMAIN variables_by_index :
          (last'.op = "eliminate_variable" /\ last'.value = v)
              => /\ Cardinality(DOMAIN variables_by_index')
                       = Cardinality(DOMAIN variables_by_index) - 1
                 /\ KeysOf({c \in clauses : ~Mentions(c, v)})
                       \subseteq KeysOf(clauses')
                 /\ KeysOf(clauses')
                       \subseteq KeysOf({c \in clauses : ~Mentions(c, v)})
                                     \cup LiveResolventKeys(v)
                 /\ \A r \in LiveResolventKeys(v) :
                       \/ \E l \in r : (-l) \in r
                       \/ \E d \in clauses' : Key(d) \subseteq r]_vars

\* C10: every eliminate_variable call on a live variable of a formula built
\* from valid input completes without raising: it reads no retired clause,
\* no liveness assertion of resolve fails and no id lookup misses.
C10_EliminationNeverRaises ==
    last.op = "eliminate_variable" => last.result = "ok"

\* C11: in every reachable state no two live clauses have equal literal
\* sets, and add_clause of a clause whose literal set equals that of a live
\* clause, whatever its id, leaves the number of live clauses unchanged.
C11_NoEqualLiveClauses ==
    /\ [](\A c \in clauses : \A d \in clauses : c # d => Key(c) # Key(d))
    /\ [][\A lits \in ClauseInputs :
             (AddClause(lits) /\ \E d \in clauses : Key(d) = lits)
                 => Cardinality(clauses') = Cardinality(clauses)]_vars

\* add_clause has returned from a clause whose literals are those of a live
\* clause that carries another id
C11_Witness ==
    /\ last.op = "add_clause"
    /\ last.result = "ok"
    /\ \E d \in clauses : Key(d) = last.arg /\ d.index # n_added - 1

\* C12: in every reachable state no live clause contains both polarities of
\* a variable: add_clause discards every tautological clause, whether handed
\* in by the caller or built as a resolvent (such as the resolvent of
\* [1,2] and [-1,-2] on variable 1).
C12_NoLiveTautology ==
    \A c \in clauses : ~\E l \in Key(c) : (-l) \in Key(c)

\* eliminate_variable has returned, and two of the clauses it resolved (they
\* are still in the occurrence sets of the eliminated variable's literals)
\* have a tautological resolvent
C12_Witness ==
    /\ last.op = "eliminate_variable"
    /\ last.result = "ok"
    /\ LET v == last.value
           gen == variables_created[v] - 1
       IN  \E p \in occurrences[Literal(v, TRUE, gen)] :
             \E n \in occurrences[Literal(v, FALSE, gen)] :
                \E l \in (Key(p) \cup Key(n)) \ {v, -v} :
                    (-l) \in (Key(p) \cup Key(n)) \ {v, -v}

\* C13: once the empty clause is live it stays live: if
\* contains_empty_clause() is true before a call of add_clause or
\* eliminate_variable (or any other call), it is true after it.
C13_EmptyClauseStaysLive ==
    [][ContainsEmptyClauseValue => ContainsEmptyClauseValue']_vars

\* an add_clause call has returned with the empty clause live: the empty
\* clause was derived by an elimination before that call
C13_Witness ==
    /\ last.op = "add_clause"
    /\ \E c \in clauses : c.literals = {}

\* C14: contains_empty_clause() returns true iff some live clause has an
\* empty literal set, however that clause was derived and whether or not the
\* cached empty clause had been materialized before.
C14_ContainsEmptyClauseIff ==
    ContainsEmptyClauseValue <=> \E c \in clauses : c.literals = {}

\* an empty resolvent is live and the cached empty clause was never
\* materialized
C14_Witness ==
    /\ empty_clause_cache = <<>>
    /\ \E c \in clauses : c.literals = {}

\* C15: resolve(c1, c2, v) on two live clauses and a live variable v returns
\* a clause whose literal set is exactly the union of the two literal sets
\* minus both literals of v, marked derived, and leaves the live set, the id
\* map and all occurrence sets unchanged.
C15_ResolveReturnsResolvent ==
    [][\A clause1 \in clauses : \A clause2 \in clauses :
          \A x \in DOMAIN variables_by_index :
             Resolve(clause1, clause2, x)
                => /\ last'.result = "ok"
                   /\ Len(last'.returned) = 1
                   /\ Key(last'.returned[1])
                         = (Key(clause1) \cup Key(clause2)) \ {x, -x}
                   /\ ~last'.returned[1].is_original
                   /\ UNCHANGED <<clauses, clauses_by_index, occurrences>>]_vars

\* the clause is live and is the clause the id map holds under its id
LiveAndRegistered(c) ==
    /\ c \in clauses
    /\ c.index \in DOMAIN clauses_by_index
    /\ clauses_by_index[c.index] = c

\* C16: resolve(c1, c2, v) raises instead of returning a resolvent whenever
\* c1 or c2 is not the live clause registered under its id, or v is not a
\* live variable.
C16_ResolveRejectsNonLive ==
    [][\A clause1 \in KnownClauses : \A clause2 \in KnownClauses :
          \A x \in VarIndices :
             (/\ Resolve(clause1, clause2, x)
              /\ \/ ~LiveAndRegistered(clause1)
                 \/ ~LiveAndRegistered(clause2)
                 \/ x \notin DOMAIN variables_by_index)
                => last'.result # "ok"]_vars

\* the literal is universally quantified by the prefix
IsUniversalLiteral(l) ==
    /\ InPrefix(quantifiers, l.variable)
    /\ var_to_quantifier(quantifiers, l.variable) = FORALL

\* the existential literals of c that the prefix binds at a level below l's
BoundExistentialsBelow(l, c) ==
    {e \in c.literals :
        /\ ~IsUniversalLiteral(e)
        /\ InPrefix(quantifiers, e.variable)
        /\ var_to_level(quantifiers, l.variable)
              > var_to_level(quantifiers, e.variable)}

\* c's existential or unquantified literals plus the universal literals
\* whose level is not strictly greater than that of any existential literal
RuleLiterals(c) ==
    {l \in c.literals :
        ~IsUniversalLiteral(l) \/ BoundExistentialsBelow(l, c) = {}}

C18_RemovedOnlyRightOfAll ==
    (/\ last.op = "universal_reduction"
     /\ \A l \in last.given[1].literals :
           l.variable \in DOMAIN variables_by_index)
        => \A l \in last.given[1].literals :
              (IsUniversalLiteral(l)
                 /\ literal_index(l) \notin Key(last.returned[1]))
                 => \A e \in last.given[1].literals :
                       (~IsUniversalLiteral(e) /\ InPrefix(quantifiers, e.variable))
                          => e \in BoundExistentialsBelow(l, last.given[1])

\* C19: when universal_reduction drops no literal from a clause c (which
\* includes every call on a formula with an empty prefix), it returns c
\* itself, with the same id, and constructs no clause and allocates no id.
C19_NoOpReturnsSameClause ==
    (/\ last.op = "universal_reduction"
     /\ Key(last.returned[1]) = Key(last.given[1]))
        => /\ last.returned[1] = last.given[1]
           /\ issued_clause_ids = {}

\* a reduction under a non-empty prefix has returned its argument, a clause
\* with a universal literal
C19_Witness ==
    /\ last.op = "universal_reduction"
    /\ quantifiers # <<>>
    /\ last.returned[1] = last.given[1]
    /\ \E l \in last.given[1].literals : IsUniversalLiteral(l)

\* C20: every live clause without literals (the empty clauses that
\* eliminate_variable inserts after universal_reduction) is the formula's
\* canonical cached empty clause: the object, with the id, that
\* generate_empty_clause() returns.
C20_LiveEmptyClauseIsCanonical ==
    \A c \in clauses : c.literals = {} => empty_clause_cache = <<c>>

\* the literals of c whose variable no quantifier block binds
UnboundLiterals(c) ==
    {l \in c.literals : ~InPrefix(quantifiers, l.variable)}

\* what universal_reduction returns for c without its unbound literals
ReducedWithoutUnbound(c) ==
    universal_reduction(quantifiers, variables_by_index,
                        [c EXCEPT !.literals = @ \ UnboundLiterals(c)],
                        c.index, empty_clause_cache, ByCaller)

\* C21 as stated: under a non-empty prefix a literal whose variable is in no
\* quantifier block is never removed by universal_reduction and never causes
\* a universal literal to be removed (the universal literals removed are
\* those removed from the clause without its unbound literals).
C21_UnboundLiterals_Original ==
    (last.op = "universal_reduction" /\ quantifiers # <<>>)
        => LET c == last.given[1]
               r == last.returned[1]
           IN  /\ \A l \in UnboundLiterals(c) : literal_index(l) \in Key(r)
               /\ \A l \in c.literals :
                     IsUniversalLiteral(l)
                        => (literal_index(l) \in Key(r)
                              <=> literal_index(l) \in Key(ReducedWithoutUnbound(c)))

\* C21 amended: the same for the unbound literals whose variable is still
\* live; an unbound literal of an eliminated variable is skipped when some
\* universal literal is dropped.
C21_UnboundLiterals ==
    (last.op = "universal_reduction" /\ quantifiers # <<>>)
        => LET c == last.given[1]
               r == last.returned[1]
           IN  /\ \A l \in UnboundLiterals(c) :
                     l.variable \in DOMAIN variables_by_index
                        => literal_index(l) \in Key(r)
               /\ \A l \in c.literals :
                     IsUniversalLiteral(l)
                        => (literal_index(l) \in Key(r)
                              <=> literal_index(l) \in Key(ReducedWithoutUnbound(c)))

\* a reduction under a non-empty prefix of a clause whose only existential
\* literals are unbound and live has kept the clause's universal literal
C21_Witness ==
    /\ last.op = "universal_reduction"
    /\ quantifiers # <<>>
    /\ \E l \in UnboundLiterals(last.given[1]) :
          l.variable \in DOMAIN variables_by_index
    /\ \A l \in last.given[1].literals :
          l \in UnboundLiterals(last.given[1]) \/ IsUniversalLiteral(l)
    /\ \E l \in last.given[1].literals :
          IsUniversalLiteral(l) /\ literal_index(l) \in Key(last.returned[1])

\* C22: after construction the dependencies of each existential variable a
\* quantifier block binds are exactly the universal variables bound in the
\* blocks to its left; universal variables of later blocks are not among
\* them.
C22_DependenciesAreOuterUniversals ==
    \A x \in DOMAIN variables_by_index :
        (InPrefix(quantifiers, x) /\ variables_by_index[x].quantifier = EXISTS)
            => variables_by_index[x].dependencies
                  = UniversalVariablesUpTo(quantifiers, BlockOf(quantifiers, x))

Abs(l) == IF l < 0 THEN -l ELSE l

\* ---------------------------------------------------------------- parse.py
\* A file is a sequence of lines and a line a sequence of the words that
\* str.split() finds on it; the letter that opens a quantifier line or a
\* comment line is followed by white space and is a word of its own.

\* the words int() converts, with their values; int() raises ValueError on
\* every other word
int_values ==
    [w \in {"0", "1", "-1", "2", "-2", "3", "-3", "4", "5", "6", "7", "8", "9"} |->
        CASE w = "0" -> 0 [] w = "1" -> 1 [] w = "-1" -> -1 [] w = "2" -> 2
          [] w = "-2" -> -2 [] w = "3" -> 3 [] w = "-3" -> -3 [] w = "4" -> 4
          [] w = "5" -> 5 [] w = "6" -> 6 [] w = "7" -> 7 [] w = "8" -> 8
          [] w = "9" -> 9]

\* str(number): the decimal numeral of an integer
str(number) == CHOOSE w \in DOMAIN int_values : int_values[w] = number

raises_ValueError(word) == word \notin DOMAIN int_values

int(word) == int_values[word]

QDimacs(num_vars, clause_list, quantifier_list) ==
    [num_vars |-> num_vars, clauses |-> clause_list, quantifiers |-> quantifier_list]

\* the two ways a call ends: a value is returned or an exception is raised
Returned(value) == [raised |-> "ok", message |-> "", value |-> <<value>>]

Raised(exception, message) == [raised |-> exception, message |-> message, value |-> <<>>]

\* lines = [line.strip() for line in lines if line.strip() and not line.startswith("c")]
WithoutComments(lines) == SelectSeq(lines, LAMBDA line : line # <<>> /\ line[1] # "c")

\* [int(literal) for literal in words]
IntList(words) == [k \in DOMAIN words |-> int(words[k])]

\* a reader of quantifier lines that accepts a block without variables
ParseQuantifierLine_AllowEmpty(line) ==
    LET quantifier_type == IF line[1] = "a" THEN FORALL ELSE EXISTS
        variables == Tail(line)
    IN  IF variables = <<>> \/ variables[Len(variables)] # "0"
        THEN Raised("QDimacsParseError", "Quantifier blocks must end with 0")
        ELSE IF \E k \in 1..(Len(variables) - 1) : raises_ValueError(variables[k])
        THEN Raised("QDimacsParseError", "Invalid quantifier")
        ELSE Returned(QuantifierBlock(IntList(SubSeq(variables, 1, Len(variables) - 1)),
                                      quantifier_type))

\* the body of the loop `for line in lines[1:]` for a line that starts with
\* "a" or "e": the block appended to `quantifiers`, or the error raised
ParseQuantifierLine(line) ==
    LET quantifier_type == IF line[1] = "a" THEN FORALL ELSE EXISTS
        variables == Tail(line)
    IN  IF variables = <<>> \/ variables[Len(variables)] # "0"
        THEN Raised("QDimacsParseError", "Quantifier blocks must end with 0")
        ELSE IF Len(variables) = 1
        THEN Raised("QDimacsParseError", "Empty quantifier block")
        ELSE IF \E k \in 1..(Len(variables) - 1) : raises_ValueError(variables[k])
        THEN Raised("QDimacsParseError", "Invalid quantifier")
        ELSE Returned(QuantifierBlock(IntList(SubSeq(variables, 1, Len(variables) - 1)),
                                      quantifier_type))

\* the body of the loop for every other line: the clause appended to
\* `clauses`, or the error raised
ParseClauseLine(line, num_vars, clause_list) ==
    LET literals == line
        words == SubSeq(literals, 1, Len(literals) - 1)
        clause == IntList(words)
    IN  IF literals[Len(literals)] # "0"
        THEN Raised("QDimacsParseError", "Clauses must end with 0")
        ELSE IF \E k \in DOMAIN words : raises_ValueError(words[k])
        THEN Raised("QDimacsParseError", "Invalid literal")
        ELSE IF clause = <<>>
        THEN Raised("QDimacsParseError", "Empty clause")
        ELSE IF \E k \in DOMAIN clause : clause[k] = 0
        THEN Raised("QDimacsParseError", "Clauses must not contain 0")
        ELSE IF \E k \in DOMAIN clause : Abs(clause[k]) > num_vars
        THEN Raised("QDimacsParseError", "Variable out of range")
        ELSE IF \E k \in DOMAIN clause_list : clause_list[k] = clause
        THEN Raised("QDimacsParseError", "Duplicate clause")
        ELSE Returned(clause)

\* the loop `for line in lines[1:]`, from the given line on
RECURSIVE ParseLines(_, _, _, _)
ParseLines(lines, num_vars, clause_list, quantifier_list) ==
    IF lines = <<>>
    THEN Returned(QDimacs(num_vars, clause_list, quantifier_list))
    ELSE LET line == Head(lines)
         IN  IF line[1] \in {"a", "e"}
             THEN LET block == ParseQuantifierLine(line)
                  IN  IF block.raised # "ok" THEN block
                      ELSE ParseLines(Tail(lines), num_vars, clause_list,
                                      Append(quantifier_list, block.value[1]))
             ELSE LET clause == ParseClauseLine(line, num_vars, clause_list)
                  IN  IF clause.raised # "ok" THEN clause
                      ELSE ParseLines(Tail(lines), num_vars,
                                      Append(clause_list, clause.value[1]), quantifier_list)

from_qdimacs(content) ==
    LET lines == WithoutComments(content)
        header == lines[1]
    IN  IF lines = <<>>
        THEN Raised("QDimacsParseError", "Empty file")
        ELSE IF header[1] # "p"
        THEN Raised("QDimacsParseError", "Invalid header")
        ELSE IF Len(header) < 2 \/ header[2] # "cnf"
        THEN Raised("QDimacsParseError", "Only cnf format is supported")
        ELSE IF Len(header) # 4
        THEN Raised("QDimacsParseError", "Invalid header")
        ELSE IF raises_ValueError(header[3]) \/ raises_ValueError(header[4])
        THEN Raised("QDimacsParseError", "Invalid header")
        ELSE IF int(header[3]) <= 0
        THEN Raised("QDimacsParseError", "Invalid number of variables")
        ELSE IF int(header[4]) < 0
        THEN Raised("QDimacsParseError", "Invalid number of clauses")
        ELSE ParseLines(Tail(lines), int(header[3]), <<>>, <<>>)

\* ------------------------------------------------------------------ lib.py
\* solve ignores the puzzle
solve(qdimacs) == Returned("UNSAT")

solve_file(content) ==
    LET parsed == from_qdimacs(content)
    IN  IF parsed.raised # "ok" THEN parsed ELSE solve(parsed.value[1])

\* expand_forall has an empty body, and the function ends without a return
\* statement: None is returned
solve_by_expansion(qdimacs) ==
    IF \E k \in DOMAIN qdimacs.quantifiers : ~is_forall(qdimacs.quantifiers[k])
    THEN Raised("ValueError", "Unknown quantifier type")
    ELSE Returned("None")

\* ----------------------------------------------------------------- main.py
\* QDimacsParseError derives from Exception, not from ValueError: the
\* `except ValueError` clause does not catch it, the interpreter prints the
\* traceback and exits with status 1
main(content) ==
    LET solved == solve_file(content)
    IN  IF solved.raised = "ok"
        THEN [stdout |-> solved.value[1], stderr |-> "", status |-> 0, exited |-> TRUE]
        ELSE IF solved.raised = "ValueError"
        THEN [stdout |-> "", stderr |-> "Invalid puzzle", status |-> 1, exited |-> TRUE]
        ELSE [stdout |-> "", stderr |-> "Traceback", status |-> 1, exited |-> TRUE]

\* open() raises FileNotFoundError: "File ... not found." goes to stderr and
\* sys.exit(1) ends the process
main_file_not_found ==
    [stdout |-> "", stderr |-> "not found", status |-> 1, exited |-> TRUE]

\* ------------------------------------------------- the files of the model
BodyWords == {"0", "1", "-1", "2", "x"}

WordLists(n) == UNION {[1..k -> BodyWords] : k \in 0..n}

ClauseLines == WordLists(MaxWords) \ {<<>>}

QuantifierLines == {<<letter>> \o words : letter \in {"a", "e"}, words \in WordLists(MaxWords - 1)}

CommentLines == {<<"c", "x">>}

Headers ==
    { <<"p", "cnf", "1", "1">>, <<"p", "cnf", "2", "2">>,
      <<"p", "cnf", "0", "1">>, <<"p", "dnf", "1", "1">> }

BodyLines == ClauseLines \cup QuantifierLines \cup CommentLines

\* the empty file, or a header followed by at most MaxLines lines
IsFile(content) ==
    \/ content = <<>>
    \/ \E header \in Headers, n \in 0..MaxLines :
          \E body \in [1..n -> BodyLines] : content = <<header>> \o body

InitSolve ==
    /\ quantifiers = <<>>
    /\ variables_by_index = <<>>
    /\ clauses = {}
    /\ clauses_by_index = <<>>
    /\ occurrences = [l \in LiteralObjects |-> {}]
    /\ largest_used_variable_index = 1
    /\ largest_used_clause_index = 0
    /\ empty_clause_cache = <<>>
    /\ variables_created = [x \in VarIndices |-> 0]
    /\ n_added = 0
    /\ n_fresh = 0
    /\ last = Call("file", "ok", NoValue, {}, <<>>, <<>>)
    /\ issued_clause_ids = {}
    /\ ever_live_ids = {}
    /\ IsFile(file_content)
    /\ puzzle = <<>>
    /\ solution = NoSolution
    /\ output = NoOutput

\* no Formula is constructed by the reader or by lib.py
formula_vars ==
    <<quantifiers, variables_by_index, clauses, clauses_by_index, occurrences,
      largest_used_variable_index, largest_used_clause_index, empty_clause_cache,
      variables_created, n_added, n_fresh, issued_clause_ids, ever_live_ids>>

\* puzzle = parse.from_qdimacs(file_content)
FromQdimacs ==
    /\ last.op = "file"
    /\ LET parsed == from_qdimacs(file_content)
       IN  /\ puzzle' = parsed.value
           /\ last' = Call("from_qdimacs", parsed.raised, NoValue, {}, <<>>, <<>>)
    /\ UNCHANGED <<formula_vars, file_content, solution, output>>

\* lib.solve(puzzle)
Solve ==
    /\ last.op = "from_qdimacs"
    /\ puzzle # <<>>
    /\ LET solved == solve(puzzle[1])
       IN  /\ solution' = IF solved.raised = "ok" THEN solved.value[1] ELSE NoSolution
           /\ last' = Call("solve", solved.raised, NoValue, {}, <<>>, <<>>)
    /\ UNCHANGED <<formula_vars, file_content, puzzle, output>>

\* lib.solve_by_expansion(puzzle)
SolveByExpansion ==
    /\ last.op = "from_qdimacs"
    /\ puzzle # <<>>
    /\ LET solved == solve_by_expansion(puzzle[1])
       IN  /\ solution' = IF solved.raised = "ok" THEN solved.value[1] ELSE NoSolution
           /\ last' = Call("solve_by_expansion", solved.raised, NoValue, {}, <<>>, <<>>)
    /\ UNCHANGED <<formula_vars, file_content, puzzle, output>>

\* lib.solve_file(file_content)
SolveFile ==
    /\ last.op = "file"
    /\ LET solved == solve_file(file_content)
       IN  /\ solution' = IF solved.raised = "ok" THEN solved.value[1] ELSE NoSolution
           /\ last' = Call("solve_file", solved.raised, NoValue, {}, <<>>, <<>>)
    /\ UNCHANGED <<formula_vars, file_content, puzzle, output>>

\* main() on a file that exists and holds file_content
Main ==
    /\ last.op = "file"
    /\ output' = main(file_content)
    /\ last' = Call("main", solve_file(file_content).raised, NoValue, {}, <<>>, <<>>)
    /\ UNCHANGED <<formula_vars, file_content, puzzle, solution>>

\* QDimacs.__str__: the header and one line per clause; the quantifier
\* blocks are not written
QDimacs_str(qdimacs) ==
    << <<"p", "cnf", str(qdimacs.num_vars), str(Len(qdimacs.clauses))>> >>
    \o [k \in DOMAIN qdimacs.clauses |->
           [i \in 1..(Len(qdimacs.clauses[k]) + 1) |->
               IF i <= Len(qdimacs.clauses[k]) THEN str(qdimacs.clauses[k][i]) ELSE "0"]]

\* parse.from_qdimacs(str(puzzle)) on the value the reader returned
StrRoundTrip ==
    /\ last.op = "from_qdimacs"
    /\ puzzle # <<>>
    /\ LET parsed == from_qdimacs(QDimacs_str(puzzle[1]))
       IN  /\ puzzle' = parsed.value
           /\ last' = Call("str_round_trip", parsed.raised, NoValue, {}, <<>>, <<>>)
    /\ UNCHANGED <<formula_vars, file_content, solution, output>>

\* main() on the name of a file that does not exist
MainFileNotFound ==
    /\ last.op = "file"
    /\ output' = main_file_not_found
    /\ last' = Call("main", "FileNotFoundError", NoValue, {}, <<>>, <<>>)
    /\ UNCHANGED <<formula_vars, file_content, puzzle, solution>>

NextSolve ==
    \/ FromQdimacs
    \/ Solve
    \/ SolveByExpansion
    \/ SolveFile
    \/ Main
    \/ MainFileNotFound
    \/ StrRoundTrip

SpecSolve == InitSolve /\ [][NextSolve]_vars

\* C23: after Formula construction the live variables are exactly the
\* variables bound in quantifier blocks, the indices 1..num_vars and the
\* variables of clause literals; each block variable carries its block's
\* quantifier and every other variable is existential.
C23_ConstructedVariables ==
    last.op = "init"
        => /\ last.result = "ok"
           /\ DOMAIN variables_by_index
                 = BoundVariables(quantifiers) \cup (1..last.value)
                      \cup {Abs(l) : l \in last.arg}
           /\ \A x \in DOMAIN variables_by_index :
                 variables_by_index[x].quantifier
                    = IF InPrefix(quantifiers, x)
                      THEN quantifiers[BlockOf(quantifiers, x)].quantifier_type
                      ELSE EXISTS

\* a Formula was constructed from an input with a universal block variable
\* above num_vars and a clause literal on a variable that is neither bound
\* nor within num_vars
C23_Witness ==
    /\ last.op = "init"
    /\ \E x \in BoundVariables(quantifiers) :
          x > last.value /\ variables_by_index[x].quantifier = FORALL
    /\ \E l \in last.arg :
          Abs(l) > last.value /\ Abs(l) \notin BoundVariables(quantifiers)

\* C24: solve returns "SAT" for every formula whose variables can all be
\* eliminated without the empty clause ever appearing, in particular for
\* num_vars=1 with the one clause [1] and no quantifiers; main then prints
\* SAT for such a file.
C24_SatisfiableIsSat ==
    /\ (last.op = "solve" /\ puzzle = <<QDimacs(1, <<<<1>>>>, <<>>)>>)
          => (last.result = "ok" /\ solution = "SAT")
    /\ (/\ last.op = "main"
        /\ last.result # "FileNotFoundError"
        /\ from_qdimacs(file_content) = Returned(QDimacs(1, <<<<1>>>>, <<>>)))
          => output.stdout = "SAT"

C27_VerdictOrError ==
    last.op \in {"solve", "solve_file", "solve_by_expansion"}
        => (last.result # "ok" \/ solution \in {"SAT", "UNSAT"})

\* ------------------------------------------ the lines of a file, by kind
\* the lines that are not comments: the first is the header
Content(content) == SelectSeq(content, LAMBDA line : line # <<>> /\ line[1] # "c")

IsQuantifierLine(line) == line[1] \in {"a", "e"}

\* the positions, in Content, of the clause lines
ClauseLinePositions(content) ==
    {i \in 2..Len(Content(content)) : ~IsQuantifierLine(Content(content)[i])}

\* the positions, in Content, of the quantifier block lines
QuantifierLinePositions(content) ==
    {i \in 2..Len(Content(content)) : IsQuantifierLine(Content(content)[i])}

IsIntegerWord(word) == word \in DOMAIN int_values

\* the words of a clause line before its last word
LiteralWords(line) == {line[k] : k \in 1..(Len(line) - 1)}

\* a clause line that is a list of non-zero integers ended by 0
IsWellFormedClauseLine(line) ==
    /\ line[Len(line)] = "0"
    /\ Len(line) > 1
    /\ \A w \in LiteralWords(line) : IsIntegerWord(w) /\ w # "0"

\* the clause a well-formed clause line writes down: a set of literals
WrittenClause(line) == {int_values[w] : w \in LiteralWords(line)}

\* the variable count the header declares
DeclaredVariables(content) == int_values[Content(content)[1][3]]

HasDeclaredVariables(content) ==
    /\ Content(content) # <<>>
    /\ Len(Content(content)[1]) >= 3
    /\ IsIntegerWord(Content(content)[1][3])

\* the clause line at position i is not terminated by 0, has a non-integer
\* word, is empty, has a 0 before the terminator, mentions a variable above
\* the declared count, or repeats the clause of an earlier clause line
IsRejectableClauseLine(content, i) ==
    LET line == Content(content)[i]
    IN  \/ ~IsWellFormedClauseLine(line)
        \/ /\ HasDeclaredVariables(content)
           /\ \E l \in WrittenClause(line) : Abs(l) > DeclaredVariables(content)
        \/ \E j \in ClauseLinePositions(content) :
              /\ j < i
              /\ IsWellFormedClauseLine(Content(content)[j])
              /\ WrittenClause(Content(content)[j]) = WrittenClause(line)

\* C28: from_qdimacs raises a parse error, returning no formula, for every
\* input containing a clause line that is not terminated by 0, contains a
\* non-integer token, is empty, contains 0 before the terminator, mentions a
\* variable larger than the declared variable count, or repeats an earlier
\* clause.
C28_BadClauseLineRejected ==
    (/\ last.op = "from_qdimacs"
     /\ \E i \in ClauseLinePositions(file_content) : IsRejectableClauseLine(file_content, i))
        => (last.result = "QDimacsParseError" /\ puzzle = <<>>)

\* a quantifier block line with no variables, without the terminating 0, or
\* with a variable word that is not an integer
IsMalformedQuantifierLine(line) ==
    LET words == Tail(line)
    IN  \/ words = <<>>
        \/ words = <<"0">>
        \/ words[Len(words)] # "0"
        \/ \E k \in 1..(Len(words) - 1) : ~IsIntegerWord(words[k])

\* the file without its line at position i
WithoutLine(lines, i) == SubSeq(lines, 1, i - 1) \o SubSeq(lines, i + 1, Len(lines))

\* C29: from_qdimacs raises a parse error for every input with a malformed
\* quantifier block line: one with no variables, one without the terminating
\* 0, or one with a non-integer variable token.
C29_BadQuantifierLineRejected ==
    (/\ last.op = "from_qdimacs"
     /\ \E i \in QuantifierLinePositions(file_content) :
           IsMalformedQuantifierLine(Content(file_content)[i]))
        => (last.result = "QDimacsParseError" /\ puzzle = <<>>)

\* from_qdimacs was called on a file that it accepts once its one malformed
\* quantifier line, an integer variable followed by a word that is not an
\* integer, is taken out
C29_Witness ==
    /\ last.op = "from_qdimacs"
    /\ \E i \in QuantifierLinePositions(file_content) :
          /\ IsMalformedQuantifierLine(Content(file_content)[i])
          /\ Len(Content(file_content)[i]) = 3
          /\ IsIntegerWord(Content(file_content)[i][2])
          /\ ~IsIntegerWord(Content(file_content)[i][3])
          /\ from_qdimacs(WithoutLine(Content(file_content), i)).raised = "ok"
          /\ ClauseLinePositions(file_content) # {}

\* the input contract of the core: each clause is a non-empty list of
\* non-zero literals without a repeated literal and with every |literal| <=
\* num_vars; each quantifier block is a non-empty list of variable indices in
\* 1..num_vars; no variable is bound by two blocks
SatisfiesInputContract(qdimacs) ==
    /\ \A k \in DOMAIN qdimacs.clauses :
          LET clause == qdimacs.clauses[k]
          IN  /\ clause # <<>>
              /\ \A i \in DOMAIN clause : clause[i] # 0 /\ Abs(clause[i]) <= qdimacs.num_vars
              /\ \A i, j \in DOMAIN clause : clause[i] = clause[j] => i = j
    /\ \A k \in DOMAIN qdimacs.quantifiers :
          LET bound == qdimacs.quantifiers[k].bound_variables
          IN  /\ bound # <<>>
              /\ \A i \in DOMAIN bound : bound[i] \in 1..qdimacs.num_vars
    /\ \A k1, k2 \in DOMAIN qdimacs.quantifiers :
          k1 # k2 => SeqToSet(qdimacs.quantifiers[k1].bound_variables)
                        \cap SeqToSet(qdimacs.quantifiers[k2].bound_variables) = {}

\* C30: every QDimacs value returned by from_qdimacs satisfies the input
\* contract the core assumes.
C30_ReturnedValueIsValid ==
    (last.op = "from_qdimacs" /\ last.result = "ok")
        => (puzzle # <<>> /\ SatisfiesInputContract(puzzle[1]))

\* ------------------------------------------------ to_qdimacs (formula.py)
\* Clause.to_qdimacs: a comment line and the line of the literals, which are
\* written in the iteration order of the frozenset, ended by 0
clause_to_qdimacs(c, literal_order) ==
    << <<"c", "Clause", str(c.index), IF c.is_original THEN "original" ELSE "derived">>,
       [k \in 1..(Len(literal_order) + 1) |->
           IF k <= Len(literal_order) THEN str(literal_order[k]) ELSE "0"] >>

\* sorted(self.clauses, key=lambda c: c.index): clauses of equal index stay in
\* the iteration order of the set
ClausesInOrder(cl) ==
    {order \in IterationOrders(cl) :
        \A i, j \in 1..Len(order) : i < j => order[i].index <= order[j].index}

RECURSIVE JoinLines(_)
JoinLines(blocks) ==
    IF blocks = <<>> THEN <<>> ELSE Head(blocks) \o JoinLines(Tail(blocks))

\* Formula.to_qdimacs: every text the call can return
to_qdimacs(variables, cl) ==
    LET header == <<"p", "cnf", str(Cardinality(DOMAIN variables)), str(Cardinality(cl))>>
        literal_orders == UNION {IterationOrders(Key(c)) : c \in cl}
    IN  {<<header>> \o JoinLines([k \in 1..Len(order) |->
                                     clause_to_qdimacs(order[k], written[order[k]])]) :
            order \in ClausesInOrder(cl),
            written \in {w \in [cl -> literal_orders] :
                            \A c \in cl : SeqToSet(w[c]) = Key(c)}}

\* parse.from_qdimacs(formula.to_qdimacs()), the last call of a run
RoundTrip ==
    /\ Running
    /\ \E text \in to_qdimacs(variables_by_index, clauses) :
          /\ file_content' = text
          /\ puzzle' = from_qdimacs(text).value
          /\ last' = Call("round_trip", from_qdimacs(text).raised, NoValue, {}, <<>>, <<>>)
    /\ UNCHANGED <<formula_vars, solution, output>>

\* add_clause, eliminate_variable and contains_empty_clause calls, then the
\* formula is written and read back
NextRoundTrip ==
    \/ \E lits \in ClauseInputs : last.op # "round_trip" /\ AddClause(lits)
    \/ \E v \in VarIndices : last.op # "round_trip" /\ EliminateVariable(v)
    \/ last.op # "round_trip" /\ ContainsEmptyClause
    \/ RoundTrip

SpecRoundTrip == Init /\ [][NextRoundTrip]_vars

\* C31: for every reachable Formula state F, from_qdimacs(F.to_qdimacs())
\* succeeds and yields clauses whose literal sets are exactly those of F's
\* live clauses.
C31_RoundTripKeepsClauses ==
    last.op = "round_trip"
        => /\ last.result = "ok"
           /\ puzzle # <<>>
           /\ {SeqToSet(puzzle[1].clauses[k]) : k \in DOMAIN puzzle[1].clauses}
                 = KeysOf(clauses)

\* the clauses eliminate_variable(v) pairs: the occurrence sets of the two
\* literals of v
PositiveOccurrences(v) == occurrences[get_literal(variables_by_index[v], TRUE)]

NegativeOccurrences(v) == occurrences[get_literal(variables_by_index[v], FALSE)]

\* the reduced resolvents eliminate_variable(v) collects
CollectedResolvents(v) ==
    LET variable == variables_by_index[v]
        fresh == next_fresh_clause_index(largest_used_clause_index,
                                         clauses_by_index)
        empty == generate_empty_clause(empty_clause_cache, fresh)
    IN  {universal_reduction(
             quantifiers, variables_by_index,
             resolve(p, n, variable, fresh, ByElimination(variable)),
             fresh, <<empty>>, ByElimination(variable)) :
            p \in PositiveOccurrences(v), n \in NegativeOccurrences(v)}

NextArgument(lits) ==
    create_clause_from_qdimacs(variables_by_index, lits, n_added, ByCaller)

\* C33: when add_clause discards its argument (a tautology, a clause with the
\* literal set of a live clause, or a subsumed clause that does not become
\* live), the live set, the id map and every literal's occurrence set are
\* exactly as before the call and no error is raised.
C33_DiscardChangesNothing ==
    [][\A lits \in ClauseInputs :
          (/\ AddClause(lits)
           /\ \/ is_tautology(NextArgument(lits))
              \/ PySetContains(clauses, NextArgument(lits))
              \/ NextArgument(lits) \notin clauses')
              => /\ UNCHANGED <<clauses, clauses_by_index, occurrences>>
                 /\ last'.result = "ok"]_vars

\* add_clause has returned from a tautological argument while a clause is
\* live
C33_Witness ==
    /\ last.op = "add_clause"
    /\ \E l \in last.arg : (-l) \in last.arg
    /\ clauses # {}

\* C34: in every reachable state the id map and the live set describe the
\* same clauses: every live clause c is the value stored under c's id in the
\* id map, and every value of the id map is a live clause.
C34_IdMapIsLiveSet ==
    /\ \A c \in clauses :
          c.index \in DOMAIN clauses_by_index /\ clauses_by_index[c.index] = c
    /\ \A i \in DOMAIN clauses_by_index : clauses_by_index[i] \in clauses

\* C35: when the reader rejects the file content as invalid, main catches the
\* failure, prints a message starting with "Invalid puzzle" to stderr and
\* exits with status 1, just as a missing file yields a "not found" message
\* and exit status 1.
C35_InvalidFileReported ==
    /\ (last.op = "main" /\ last.result = "QDimacsParseError")
          => (output.exited /\ output.stderr = "Invalid puzzle" /\ output.status = 1)
    /\ (last.op = "main" /\ last.result = "FileNotFoundError")
          => (output.exited /\ output.stderr = "not found" /\ output.status = 1)

\* C36: from_qdimacs(str(q)) == q for every valid QDimacs value q, its
\* quantifier blocks included.
C36_StrRoundTrip ==
    (/\ last.op = "str_round_trip"
     /\ SatisfiesInputContract(from_qdimacs(file_content).value[1]))
        => (last.result = "ok" /\ puzzle = from_qdimacs(file_content).value)

====
